---- MODULE Spec2Model ----
(***************************************************************************)
(* Model of src/app.py: a Streamlit script that keeps a library of PDF     *)
(* files in a remote vector store and answers questions about them.        *)
(*                                                                         *)
(* The script is executed top to bottom on every user event and on every   *)
(* st.rerun().  One run is modelled as a short sequence of steps, each a   *)
(* whole function or block of the script:                                  *)
(*    widget event -> ensure_vector_store_id -> prefetch_existing_filenames*)
(*                 -> upload block -> chat logic (Part 1 / Part 2 / none)  *)
(* pc names the block the running script executes next; "done" and         *)
(* "crashed" mean that no script is running.  A widget event that arrives  *)
(* while a run is in progress stops that run at the block boundary and     *)
(* starts a new one, as Streamlit does.                                    *)
(*                                                                         *)
(* Texts (questions, answers) are sequences of tokens, so that string      *)
(* concatenation is \o.  The collaborators (vector store service, file     *)
(* service, completion service, file system) are the environment: their    *)
(* answers are nondeterministic inputs of the step that calls them.        *)
(***************************************************************************)
EXTENDS Naturals, Sequences, FiniteSets

VARIABLES
    vector_store_id,              \* st.session_state.vector_store_id
    num_uploaded_files,           \* st.session_state.num_uploaded_files
    file_hashes_in_store,         \* st.session_state.file_hashes_in_store
    existing_filenames_in_store,  \* st.session_state.existing_filenames_in_store
    chat_history,                 \* st.session_state.chat_history
    processing,                   \* st.session_state.processing
    disk,                         \* contents of STATE_PATH
    writable,                     \* environment: whether STATE_PATH can be written
                                  \*   (fixed for a behaviour)
    remote,                       \* environment: the vector stores that exist
    nextId,                       \* environment: the id the next created store gets
    uploaded_files,               \* value of the st.file_uploader widget
    query,                        \* user_input or clicked_prompt of the current run
    pc,                           \* block the running script executes next
    vs_local,                     \* the upload block's local vector_store_id
    classified,                   \* upload loop: what it did with each uploaded file
    batch,                        \* upload loop: file_streams (the bytes staged)
    calls,                        \* collaborator calls made by the last step, with outcome
    stream,                       \* the response stream the last step consumed
    last_op                       \* name of the last step taken

sessionVars ==
    <<vector_store_id, num_uploaded_files, file_hashes_in_store,
      existing_filenames_in_store, chat_history, processing>>

vars ==
    <<vector_store_id, num_uploaded_files, file_hashes_in_store,
      existing_filenames_in_store, chat_history, processing, disk, writable,
      remote, nextId, uploaded_files, query, pc, vs_local, classified, batch,
      calls, stream, last_op>>

-----------------------------------------------------------------------------
(* Bounds of the model *)

MaxStores == 2     \* vector stores the service creates in one behaviour
MaxFiles == 1      \* files selected in the uploader at once (whole script)
MaxBatch == 2      \* files selected in the uploader at once (library alone)
MaxDocs == 2       \* cap of num_uploaded_files
MaxChat == 4       \* cap of Len(chat_history)
MaxEvents == 1     \* events of one response stream
MaxStream == 2     \* events of one response stream (chat alone)
MaxTranscript == 52    \* entries of a transcript (persistence alone)
MaxOver == 2       \* entries a transcript of KEEP entries may still gain

-----------------------------------------------------------------------------
(* Program constants *)

None == 0          \* Python None (every real store id is truthy)
KEEP == 50         \* persist_state keeps chat_history[-50:]
VECTOR_STORE_NAME == "reports_search_store"
APOLOGY ==
    <<"Sorry, I couldn't answer that right now. Please try rephrasing or ask another question.">>
NoQuery == <<>>    \* chat_input returned None and no quick prompt was clicked
DELTA == "response.output_text.delta"
\* no stream was opened: no events, no failure
NoStream == [events |-> <<>>, failAt |-> 0]

(* Values the environment draws from *)
OtherName == "some_other_store"
ExternalStoreId == MaxStores + 1
ListedNames == {"A.pdf"}         \* filenames the file service may report for a store
Queries == {<<"What is the net income?">>}
Tokens == {"x"}
Outcomes == {"ok", "error"}

\* two names for the same bytes, and two contents under the same name
Files ==
    {[name |-> "A.pdf", bytes |-> "bytes1"],
     [name |-> "B.pdf", bytes |-> "bytes1"],
     [name |-> "A.pdf", bytes |-> "bytes2"]}
\* the files the user picks from: one document in the specification of the
\* whole script, every name and content in the specification of the library
LibraryFiles == {[name |-> "A.pdf", bytes |-> "bytes1"]}

RECURSIVE SeqsUpTo(_, _)
SeqsUpTo(S, n) ==
    IF n = 0 THEN {<<>>}
    ELSE LET shorter == SeqsUpTo(S, n - 1)
         IN  shorter \cup {Append(s, x) : s \in shorter, x \in S}

StreamEvents ==
    [type : {DELTA}, delta : Tokens] \cup [type : {"response.created"}, delta : {""}]

\* the events of longer streams: two fragments that differ
LongTokens == {"x", "y"}
LongStreamEvents ==
    [type : {DELTA}, delta : LongTokens] \cup
    [type : {"response.created"}, delta : {""}]

-----------------------------------------------------------------------------
(* Persistence helpers *)

Keys ==
    {"vector_store_id", "num_uploaded_files", "file_hashes_in_store",
     "existing_filenames_in_store", "chat_history"}

DEFAULT_STATE ==
    [vector_store_id |-> None,
     num_uploaded_files |-> 0,
     file_hashes_in_store |-> <<>>,
     existing_filenames_in_store |-> <<>>,
     chat_history |-> <<>>]

NoFile == [kind |-> "missing"]

\* list(a_set): the elements in some order, each once
RECURSIVE SetToList(_)
SetToList(S) ==
    IF S = {} THEN <<>>
    ELSE LET x == CHOOSE y \in S : TRUE
         IN  <<x>> \o SetToList(S \ {x})

\* set(a_list)
ListToSet(l) == {l[i] : i \in DOMAIN l}

\* mutant: the slice is one entry too long
LastN_OneMore(h, n) ==
    IF Len(h) > n + 1 THEN SubSeq(h, Len(h) - n, Len(h)) ELSE h

\* history[-50:]
LastN(h, n) ==
    IF Len(h) > n THEN SubSeq(h, Len(h) - n + 1, Len(h)) ELSE h

\* mutant: the slice keeps the oldest entries
ToSave_KeepsOldest(vsid, num, hashes, names, chat) ==
    [vector_store_id |-> vsid,
     num_uploaded_files |-> num,
     file_hashes_in_store |-> SetToList(hashes),
     existing_filenames_in_store |-> SetToList(names),
     chat_history |-> SubSeq(chat, 1, IF Len(chat) > KEEP THEN KEEP ELSE Len(chat))]

\* the dict persist_state dumps
ToSave(vsid, num, hashes, names, chat) ==
    [vector_store_id |-> vsid,
     num_uploaded_files |-> num,
     file_hashes_in_store |-> SetToList(hashes),
     existing_filenames_in_store |-> SetToList(names),
     chat_history |-> LastN(chat, KEEP)]

\* persist_state(): the file afterwards; a failed write is swallowed
persist_state(vsid, num, hashes, names, chat, file) ==
    IF writable
    THEN [kind |-> "json", data |-> ToSave(vsid, num, hashes, names, chat)]
    ELSE file

\* mutant: a file that lacks a field is taken for invalid
load_persisted_state_AllOrNothing(file) ==
    IF file.kind = "json" /\ Keys \subseteq DOMAIN file.data
    THEN file.data
    ELSE DEFAULT_STATE

\* load_persisted_state(): defaults, updated with what the file holds; a file
\* that is missing, cannot be read or does not parse gives the defaults
load_persisted_state(file) ==
    IF file.kind = "json"
    THEN [k \in Keys \cup DOMAIN file.data |->
            IF k \in DOMAIN file.data THEN file.data[k] ELSE DEFAULT_STATE[k]]
    ELSE DEFAULT_STATE

-----------------------------------------------------------------------------
(* Small pieces of the script *)

\* hashlib.sha256(file_bytes).hexdigest()
sha256(bytes) ==
    CASE bytes = "bytes1" -> "9f2c"
      [] bytes = "bytes2" -> "41ab"

\* mutant: the upload block does not call ensure_vector_store_id
RunStart_SkipEnsure(files) == IF files # <<>> THEN "prefetch" ELSE "chat"

\* the block the script reaches after the sidebar
RunStart(files) == IF files # <<>> THEN "ensure" ELSE "chat"

UserEntry(q) == <<"You", q>>

\* mutant: the answer is filed under the user's label
AiEntry_AsUser(text) == <<"You", text>>

AiEntry(text) == <<"AI", text>>

\* mutant: the processing flag is not consulted
PartOneGuard_NoFlag(q, p) == q # NoQuery

\* "query and not st.session_state.processing"
PartOneGuard(q, p) == q # NoQuery /\ ~p

\* mutant: the last message is not looked at
LastIsUser_NoCheck(h) == TRUE

\* "chat_history and chat_history[-1][0] == 'You'"
LastIsUser(h) == h # <<>> /\ h[Len(h)][1] = "You"

\* quick prompts are shown, and chat_input is enabled, when not processing
ChatInputEnabled(p) == ~p

Paired(h) ==
    /\ Len(h) % 2 = 0
    /\ \A i \in DOMAIN h : h[i][1] = (IF i % 2 = 1 THEN "You" ELSE "AI")

-----------------------------------------------------------------------------
Init ==
    /\ disk = NoFile
    /\ writable \in BOOLEAN
    /\ vector_store_id = load_persisted_state(NoFile).vector_store_id
    /\ num_uploaded_files = load_persisted_state(NoFile).num_uploaded_files
    /\ file_hashes_in_store = ListToSet(load_persisted_state(NoFile).file_hashes_in_store)
    /\ existing_filenames_in_store =
           ListToSet(load_persisted_state(NoFile).existing_filenames_in_store)
    /\ chat_history = load_persisted_state(NoFile).chat_history
    /\ processing = FALSE
    /\ remote = {[id |-> ExternalStoreId, name |-> OtherName]}
    /\ nextId = 1
    /\ uploaded_files = <<>>
    /\ query = NoQuery
    /\ pc = "chat"
    /\ vs_local = None
    /\ classified = <<>>
    /\ batch = <<>>
    /\ calls = <<>>
    /\ stream = NoStream
    /\ last_op = "NewSession"


-----------------------------------------------------------------------------
(* Widget events.  Each one ends the run in progress, if any, and starts a  *)
(* run of the script from the top; the locals of the old run are dropped.   *)

DropLocals ==
    /\ vs_local' = None
    /\ classified' = <<>>
    /\ batch' = <<>>
    /\ calls' = <<>>
    /\ stream' = NoStream

\* st.button("Clear chat history") returned True
ClickClear ==
    /\ chat_history' = <<>>
    /\ disk' = persist_state(vector_store_id, num_uploaded_files,
                             file_hashes_in_store, existing_filenames_in_store,
                             <<>>, disk)
    /\ query' = NoQuery
    /\ pc' = RunStart(uploaded_files)
    /\ last_op' = "ClickClear"
    /\ DropLocals
    /\ UNCHANGED <<vector_store_id, num_uploaded_files, file_hashes_in_store,
                   existing_filenames_in_store, processing, writable, remote,
                   nextId, uploaded_files>>

\* An enabled chat input (or quick prompt) is on the page: the run that ended
\* drew it, or the run before this rerun drew it and this rerun has not yet
\* come to draw it again.  A run that ended in an exception drew none.
InputOnPage ==
    \/ pc = "done" /\ ChatInputEnabled(processing)
    \/ pc \notin {"done", "crashed"} /\ last_op = "ChatPart1"

\* the cap of Len(chat_history): MaxChat, and MaxOver beyond KEEP for a
\* transcript that has KEEP entries
ChatCap(n) == IF n >= KEEP THEN KEEP + MaxOver ELSE MaxChat

\* st.chat_input returned a text, or a quick prompt button was clicked
SubmitQuery ==
    /\ InputOnPage
    /\ processing \/ Len(chat_history) + 2 <= ChatCap(Len(chat_history))
    /\ \E q \in Queries : query' = q
    /\ pc' = RunStart(uploaded_files)
    /\ last_op' = "SubmitQuery"
    /\ DropLocals
    /\ UNCHANGED <<sessionVars, disk, writable, remote, nextId, uploaded_files>>

\* the selection of st.file_uploader changed
ChangeUpload ==
    /\ \E fs \in SeqsUpTo(LibraryFiles, MaxFiles) \ {uploaded_files} :
          /\ uploaded_files' = fs
          /\ pc' = RunStart(fs)
    /\ query' = NoQuery
    /\ last_op' = "ChangeUpload"
    /\ DropLocals
    /\ UNCHANGED <<sessionVars, disk, writable, remote, nextId>>

\* the same widget, with every file of Files to choose from, used while no
\* script runs
ChangeUploadAny ==
    /\ pc \in {"done", "crashed"}
    /\ \E fs \in SeqsUpTo(Files, MaxBatch) \ {uploaded_files} :
          /\ uploaded_files' = fs
          /\ pc' = RunStart(fs)
    /\ query' = NoQuery
    /\ last_op' = "ChangeUpload"
    /\ DropLocals
    /\ UNCHANGED <<sessionVars, disk, writable, remote, nextId>>

\* a new session (page reload or process restart): session_state is filled
\* from the persisted state, the widgets are fresh, the script runs
NewSession ==
    LET persisted == load_persisted_state(disk)
    IN  /\ vector_store_id' = persisted.vector_store_id
        /\ num_uploaded_files' = persisted.num_uploaded_files
        /\ file_hashes_in_store' = ListToSet(persisted.file_hashes_in_store)
        /\ existing_filenames_in_store' =
               ListToSet(persisted.existing_filenames_in_store)
        /\ chat_history' = persisted.chat_history
        /\ processing' = FALSE
        /\ uploaded_files' = <<>>
        /\ query' = NoQuery
        /\ pc' = RunStart(<<>>)
        /\ last_op' = "NewSession"
        /\ DropLocals
        /\ UNCHANGED <<disk, writable, remote, nextId>>

-----------------------------------------------------------------------------
(* Environment steps, taken while no script runs *)

Waiting == pc \in {"done", "crashed"}

\* somebody deletes a vector store of this name
RemoteDelete ==
    /\ Waiting
    /\ \E s \in remote :
          /\ s.name = VECTOR_STORE_NAME
          /\ remote' = remote \ {s}
    /\ last_op' = "RemoteDelete"
    /\ UNCHANGED <<sessionVars, disk, writable, nextId, uploaded_files, query,
                   pc, vs_local, classified, batch, calls, stream>>

-----------------------------------------------------------------------------
(* ensure_vector_store_id *)

StoreIds(stores) == {s.id : s \in stores}

\* mutant: the cached id is never trusted
CachedIdValid_Never(existing_id, retr) == FALSE

\* "if existing_id:" and client.vector_stores.retrieve(existing_id) did not raise
CachedIdValid(existing_id, retr) == existing_id # None /\ retr = "ok"

\* mutant: the except branch forgets to empty the filenames
StaleReset_KeepNames(vsid, names, hashes) ==
    [vsid |-> None, names |-> names, hashes |-> {}]

\* mutant: the except branch forgets to empty the hashes
StaleReset_KeepHashes(vsid, names, hashes) ==
    [vsid |-> None, names |-> {}, hashes |-> hashes]

\* the except branch: the bookkeeping of a stale id
StaleReset(vsid, names, hashes) ==
    [vsid |-> None, names |-> {}, hashes |-> {}]

\* the stores of the listing with "store.name == VECTOR_STORE_NAME"
NamedStores(stores) == StoreIds({s \in stores : s.name = VECTOR_STORE_NAME})

\* mutant: binding a store found by name resets the bookkeeping, as creating
\* one does
FoundBind_Reset(id, num, names, hashes) ==
    [vsid |-> id, num |-> 0, names |-> {}, hashes |-> {}]

\* "st.session_state.vector_store_id = store.id" for the store found by name:
\* nothing else is assigned
FoundBind(id, num, names, hashes) ==
    [vsid |-> id, num |-> num, names |-> names, hashes |-> hashes]

\* the bookkeeping sets next to a newly created store
CreateReset(names, hashes) == [names |-> {}, hashes |-> {}]

\* inputs: the outcome of retrieve, of list, of create, and the store the
\* listing shows first among those of the name
EnsureVectorStoreId ==
    /\ pc = "ensure"
    /\ \E retr \in Outcomes, lst \in Outcomes, crt \in Outcomes,
          pick \in StoreIds(remote) \cup {None} :
        LET existing_id == vector_store_id
            tried == existing_id # None
            cached == CachedIdValid(existing_id, retr)
            stale == tried /\ ~cached
            s1 == IF stale
                  THEN StaleReset(vector_store_id, existing_filenames_in_store,
                                  file_hashes_in_store)
                  ELSE [vsid |-> vector_store_id,
                        names |-> existing_filenames_in_store,
                        hashes |-> file_hashes_in_store]
            d1 == IF stale
                  THEN persist_state(s1.vsid, num_uploaded_files, s1.hashes,
                                     s1.names, chat_history, disk)
                  ELSE disk
            c1 == IF tried THEN << <<"vector_stores.retrieve", retr>> >> ELSE <<>>
            matches == NamedStores(remote)
            found == lst = "ok" /\ pick \in matches
            fresh == CreateReset(s1.names, s1.hashes)
            bound == FoundBind(pick, num_uploaded_files, s1.names, s1.hashes)
        IN
        \* what the service can answer
        /\ retr = "ok" => tried /\ existing_id \in StoreIds(remote)
        /\ ~tried => retr = "error"
        /\ lst = "ok" /\ matches # {} => pick \in matches
        /\ lst = "ok" /\ matches = {} => pick = None
        /\ lst = "error" => pick = None
        /\ crt = "ok" => nextId <= MaxStores
        /\ last_op' = "Ensure"
        /\ stream' = NoStream
        /\ UNCHANGED <<chat_history, processing, writable, uploaded_files,
                       classified, batch>>
        /\ IF cached THEN
              \* return existing_id
              /\ lst = "error" /\ crt = "error"
              /\ calls' = c1
              /\ vs_local' = existing_id
              /\ pc' = "prefetch"
              /\ UNCHANGED <<vector_store_id, num_uploaded_files,
                             file_hashes_in_store, existing_filenames_in_store,
                             disk, remote, nextId, query>>
           ELSE IF found THEN
              \* bind to the store found by name
              /\ crt = "error"
              /\ calls' = Append(c1, <<"vector_stores.list", lst>>)
              /\ vector_store_id' = bound.vsid
              /\ num_uploaded_files' = bound.num
              /\ file_hashes_in_store' = bound.hashes
              /\ existing_filenames_in_store' = bound.names
              /\ disk' = persist_state(bound.vsid, bound.num, bound.hashes,
                                       bound.names, chat_history, d1)
              /\ vs_local' = bound.vsid
              /\ pc' = "prefetch"
              /\ UNCHANGED <<remote, nextId, query>>
           ELSE IF crt = "ok" THEN
              \* create a new store
              /\ calls' = c1 \o << <<"vector_stores.list", lst>>,
                                   <<"vector_stores.create", crt>> >>
              /\ remote' = remote \cup
                     {[id |-> nextId, name |-> VECTOR_STORE_NAME]}
              /\ nextId' = nextId + 1
              /\ vector_store_id' = nextId
              /\ file_hashes_in_store' = fresh.hashes
              /\ existing_filenames_in_store' = fresh.names
              /\ disk' = persist_state(nextId, num_uploaded_files, fresh.hashes,
                                       fresh.names, chat_history, d1)
              /\ vs_local' = nextId
              /\ pc' = "prefetch"
              /\ UNCHANGED <<num_uploaded_files, query>>
           ELSE
              \* client.vector_stores.create raises: the run ends there
              /\ calls' = c1 \o << <<"vector_stores.list", lst>>,
                                   <<"vector_stores.create", crt>> >>
              /\ vector_store_id' = s1.vsid
              /\ file_hashes_in_store' = s1.hashes
              /\ existing_filenames_in_store' = s1.names
              /\ disk' = d1
              /\ vs_local' = None
              /\ query' = NoQuery
              /\ pc' = "crashed"
              /\ UNCHANGED <<num_uploaded_files, remote, nextId>>

-----------------------------------------------------------------------------
(* prefetch_existing_filenames *)

\* inputs: the outcome of files.list, and the filenames client.files.retrieve
\* gave for the files listed (each retrieve may fail on its own)
PrefetchExistingFilenames ==
    /\ pc = "prefetch"
    /\ last_op' = "Prefetch"
    /\ stream' = NoStream
    /\ pc' = "upload"
    /\ IF existing_filenames_in_store # {} THEN
          /\ calls' = <<>>
          /\ UNCHANGED <<existing_filenames_in_store, disk>>
       ELSE
          \E lst \in Outcomes, got \in SUBSET ListedNames :
             /\ lst = "error" => got = {}
             /\ calls' = << <<"vector_stores.files.list", lst>> >>
             /\ existing_filenames_in_store' = existing_filenames_in_store \cup got
             /\ disk' = persist_state(vector_store_id, num_uploaded_files,
                                      file_hashes_in_store,
                                      existing_filenames_in_store \cup got,
                                      chat_history, disk)
    /\ UNCHANGED <<vector_store_id, num_uploaded_files, file_hashes_in_store,
                   chat_history, processing, writable, remote, nextId,
                   uploaded_files, query, vs_local, classified,
                   batch>>


-----------------------------------------------------------------------------
(* File upload and indexing: the "if uploaded_files:" block after prefetch *)

\* mutant: the content check is left out
IsDuplicateContent_Never(h, hashes) == FALSE

\* "sha256 in st.session_state.file_hashes_in_store"
IsDuplicateContent(h, hashes) == h \in hashes

\* mutant: the name check is left out
IsDuplicateName_Never(n, names) == FALSE

\* "file.name in st.session_state.existing_filenames_in_store"
IsDuplicateName(n, names) == n \in names

\* the for loop over uploaded_files: acc holds the two sets, the staged files
\* (file_streams / new_filenames) and what was done with each file so far
RECURSIVE StageFiles(_, _)
StageFiles(files, acc) ==
    IF files = <<>> THEN acc
    ELSE LET file == Head(files)
             digest == sha256(file.bytes)
         IN  IF IsDuplicateContent(digest, acc.hashes)
             THEN StageFiles(Tail(files),
                      [acc EXCEPT !.classified = Append(@, "Skipped duplicate")])
             ELSE IF IsDuplicateName(file.name, acc.names)
             THEN StageFiles(Tail(files),
                      [acc EXCEPT !.classified = Append(@, "Already in library")])
             ELSE StageFiles(Tail(files),
                      [hashes |-> acc.hashes \cup {digest},
                       names |-> acc.names \cup {file.name},
                       staged |-> Append(acc.staged, file),
                       classified |-> Append(acc.classified, "staged")])

BytesOf(staged) == [i \in DOMAIN staged |-> staged[i].bytes]

\* mutant: the count goes up by one for a batch
CountAfterUpload_PlusOne(num, staged) == num + 1

\* "num_uploaded_files += len(file_streams)"
CountAfterUpload(num, staged) == num + Len(staged)

\* input: the outcome of file_batches.upload_and_poll
UploadFiles ==
    /\ pc = "upload"
    /\ last_op' = "Upload"
    /\ stream' = NoStream
    /\ LET r == StageFiles(uploaded_files,
                           [hashes |-> file_hashes_in_store,
                            names |-> existing_filenames_in_store,
                            staged |-> <<>>,
                            classified |-> <<>>])
       IN  /\ file_hashes_in_store' = r.hashes
           /\ existing_filenames_in_store' = r.names
           /\ classified' = r.classified
           /\ batch' = BytesOf(r.staged)
           /\ IF r.staged # <<>> THEN
                 \E up \in Outcomes :
                    /\ calls' = << <<"file_batches.upload_and_poll", up>> >>
                    /\ IF up = "ok" THEN
                          /\ num_uploaded_files + Len(r.staged) <= MaxDocs
                          /\ num_uploaded_files' =
                                 CountAfterUpload(num_uploaded_files, r.staged)
                          /\ disk' = persist_state(vector_store_id,
                                         CountAfterUpload(num_uploaded_files, r.staged),
                                         r.hashes, r.names, chat_history, disk)
                          /\ pc' = "chat"
                          /\ UNCHANGED query
                       ELSE
                          \* the exception leaves the script; the finally
                          \* clause only closes the streams
                          /\ pc' = "crashed"
                          /\ query' = NoQuery
                          /\ UNCHANGED <<num_uploaded_files, disk>>
              ELSE
                 /\ calls' = <<>>
                 /\ pc' = "chat"
                 /\ UNCHANGED <<num_uploaded_files, disk, query>>
    /\ UNCHANGED <<vector_store_id, chat_history, processing, writable, remote,
                   nextId,
                   uploaded_files, vs_local>>

-----------------------------------------------------------------------------
(* Chat logic.  The quick prompts and the chat input are drawn first, from  *)
(* the value the processing flag has then.                                  *)

\* the for loop over the stream: "streamed += event.delta" for delta events
RECURSIVE Accumulate(_)
Accumulate(events) ==
    IF events = <<>> THEN <<>>
    ELSE (IF Head(events).type = DELTA THEN <<Head(events).delta>> ELSE <<>>)
         \o Accumulate(Tail(events))

\* mutant: the except branch adds the apology to the text streamed so far
StreamedText_ApologyAdded(events, failAt) ==
    IF failAt = 0 THEN Accumulate(events)
    ELSE Accumulate(SubSeq(events, 1, failAt - 1)) \o APOLOGY

\* mutant: the except branch keeps the text streamed so far
StreamedText_KeepPartial(events, failAt) ==
    IF failAt = 0 THEN Accumulate(events)
    ELSE Accumulate(SubSeq(events, 1, failAt - 1))

\* streamed after the try block; failAt = 0: no exception, failAt = k: the
\* exception comes after k - 1 events were handled
StreamedText(events, failAt) ==
    IF failAt = 0 THEN Accumulate(events) ELSE APOLOGY

\* mutant: the entry is put in front of the history
AppendEntry_Front(h, e) == <<e>> \o h

\* chat_history.append(entry)
AppendEntry(h, e) == Append(h, e)

\* Part 1: a new query is taken
ChatPart1 ==
    /\ pc = "chat"
    /\ PartOneGuard(query, processing)
    /\ processing' = TRUE
    /\ chat_history' = AppendEntry(chat_history, UserEntry(query))
    /\ query' = NoQuery
    /\ pc' = RunStart(uploaded_files)
    /\ last_op' = "ChatPart1"
    /\ DropLocals
    /\ UNCHANGED <<vector_store_id, num_uploaded_files, file_hashes_in_store,
                   existing_filenames_in_store, disk, writable, remote, nextId,
                   uploaded_files>>

\* Part 2: the query at the end of the history is answered
\* inputs: the events of the stream (drawn from evs, at most maxEv of them)
\* and where it fails, if it does
AnswerStep(evs, maxEv) ==
    /\ pc = "chat"
    /\ ~PartOneGuard(query, processing)
    /\ processing
    /\ IF LastIsUser(chat_history) THEN
          \E events \in SeqsUpTo(evs, maxEv), failAt \in 0 .. maxEv + 1 :
             /\ failAt <= Len(events) + 1
             /\ failAt = 0 => vector_store_id # None
             /\ calls' = << <<"responses.stream",
                              IF failAt = 0 THEN "ok" ELSE "error">> >>
             /\ stream' = [events |-> events, failAt |-> failAt]
             /\ chat_history' =
                    AppendEntry(chat_history,
                                AiEntry(StreamedText(events, failAt)))
             /\ disk' = persist_state(vector_store_id, num_uploaded_files,
                            file_hashes_in_store, existing_filenames_in_store,
                            AppendEntry(chat_history,
                                        AiEntry(StreamedText(events, failAt))),
                            disk)
       ELSE
          /\ calls' = <<>>
          /\ stream' = NoStream
          /\ UNCHANGED <<chat_history, disk>>
    /\ processing' = FALSE
    /\ query' = NoQuery
    /\ pc' = RunStart(uploaded_files)
    /\ last_op' = "ChatPart2"
    /\ vs_local' = None
    /\ classified' = <<>>
    /\ batch' = <<>>
    /\ UNCHANGED <<vector_store_id, num_uploaded_files, file_hashes_in_store,
                   existing_filenames_in_store, writable, remote, nextId,
                   uploaded_files>>

ChatPart2 == AnswerStep(StreamEvents, MaxEvents)

\* the same step with longer streams of more fragments
ChatPart2Long == AnswerStep(LongStreamEvents, MaxStream)

\* neither part applies: the script draws the right column and ends
ChatNone ==
    /\ pc = "chat"
    /\ ~PartOneGuard(query, processing)
    /\ ~processing
    /\ query' = NoQuery
    /\ pc' = "done"
    /\ last_op' = "ChatNone"
    /\ DropLocals
    /\ UNCHANGED <<sessionVars, disk, writable, remote, nextId, uploaded_files>>

-----------------------------------------------------------------------------
Next ==
    \/ ClickClear
    \/ SubmitQuery
    \/ ChangeUpload
    \/ NewSession
    \/ RemoteDelete
    \/ EnsureVectorStoreId
    \/ PrefetchExistingFilenames
    \/ UploadFiles
    \/ ChatPart1
    \/ ChatPart2
    \/ ChatNone

Spec == Init /\ [][Next]_vars

\* The steps of a run of the script.  Streamlit runs the script on to its end,
\* to st.rerun() or to an uncaught exception, whatever the user does: a run
\* that can take a step eventually takes one
ScriptStep ==
    \/ EnsureVectorStoreId
    \/ PrefetchExistingFilenames
    \/ UploadFiles
    \/ ChatPart1
    \/ ChatPart2
    \/ ChatNone

SpecFair == Init /\ [][Next]_vars /\ WF_vars(ScriptStep)

\* The library alone: uploads of any files, no question is ever asked
NextLibrary ==
    \/ ChangeUploadAny
    \/ NewSession
    \/ RemoteDelete
    \/ EnsureVectorStoreId
    \/ PrefetchExistingFilenames
    \/ UploadFiles
    \/ ChatNone

SpecLibrary == Init /\ [][NextLibrary]_vars

-----------------------------------------------------------------------------
(* The whole script, started by a process that finds the state file of an   *)
(* earlier one: 25 questions were asked without a library, each answered    *)
(* by the apology, so that the transcript has KEEP entries                  *)

LongHistory ==
    [i \in 1 .. KEEP |->
        IF i % 2 = 1 THEN UserEntry(CHOOSE q \in Queries : TRUE)
                     ELSE AiEntry(APOLOGY)]

LongFile ==
    [kind |-> "json", data |-> ToSave(None, 0, {}, {}, LongHistory)]

InitLong ==
    /\ disk = LongFile
    /\ writable = TRUE
    /\ vector_store_id = load_persisted_state(LongFile).vector_store_id
    /\ num_uploaded_files = load_persisted_state(LongFile).num_uploaded_files
    /\ file_hashes_in_store =
           ListToSet(load_persisted_state(LongFile).file_hashes_in_store)
    /\ existing_filenames_in_store =
           ListToSet(load_persisted_state(LongFile).existing_filenames_in_store)
    /\ chat_history = load_persisted_state(LongFile).chat_history
    /\ processing = FALSE
    /\ remote = {[id |-> ExternalStoreId, name |-> OtherName]}
    /\ nextId = 1
    /\ uploaded_files = <<>>
    /\ query = NoQuery
    /\ pc = "chat"
    /\ vs_local = None
    /\ classified = <<>>
    /\ batch = <<>>
    /\ calls = <<>>
    /\ stream = NoStream
    /\ last_op = "NewSession"

\* one session of that process
NextLong ==
    \/ ClickClear
    \/ SubmitQuery
    \/ ChangeUpload
    \/ RemoteDelete
    \/ EnsureVectorStoreId
    \/ PrefetchExistingFilenames
    \/ UploadFiles
    \/ ChatPart1
    \/ ChatPart2
    \/ ChatNone

SpecLong == InitLong /\ [][NextLong]_vars

-----------------------------------------------------------------------------
(* The chat alone, with longer streams: the session has added one document  *)
(* to its store and the uploader is empty again                             *)

InitChat ==
    /\ writable \in BOOLEAN
    /\ vector_store_id = 1
    /\ num_uploaded_files = 1
    /\ file_hashes_in_store = {sha256("bytes1")}
    /\ existing_filenames_in_store = {"A.pdf"}
    /\ chat_history = <<>>
    /\ processing = FALSE
    /\ disk = persist_state(1, 1, {sha256("bytes1")}, {"A.pdf"}, <<>>, NoFile)
    /\ remote = {[id |-> ExternalStoreId, name |-> OtherName],
                 [id |-> 1, name |-> VECTOR_STORE_NAME]}
    /\ nextId = 2
    /\ uploaded_files = <<>>
    /\ query = NoQuery
    /\ pc = "done"
    /\ vs_local = None
    /\ classified = <<>>
    /\ batch = <<>>
    /\ calls = <<>>
    /\ stream = NoStream
    /\ last_op = "ChatNone"

NextChat ==
    \/ ClickClear
    \/ SubmitQuery
    \/ NewSession
    \/ ChatPart1
    \/ ChatPart2Long
    \/ ChatNone

SpecChat == InitChat /\ [][NextChat]_vars

-----------------------------------------------------------------------------
(* The persistence helpers alone: persist_state and the start of a session, *)
(* applied to session states and state files drawn from bounded sets        *)

\* a transcript of n entries, each with a text of its own
Transcript(n) ==
    [i \in 1 .. n |-> <<IF i % 2 = 1 THEN "You" ELSE "AI", <<i>> >>]

\* what a well-formed state file may hold: any of the fields, or a field
\* this program never wrote
FileFields ==
    [vector_store_id |-> 1,
     num_uploaded_files |-> 1,
     file_hashes_in_store |-> <<"9f2c", "41ab">>,
     existing_filenames_in_store |-> <<"A.pdf">>,
     chat_history |-> Transcript(2),
     theme |-> "dark"]

StateFiles ==
    {NoFile, [kind |-> "unreadable"], [kind |-> "malformed"]} \cup
    {[kind |-> "json", data |-> [k \in K |-> FileFields[k]]] :
        K \in SUBSET DOMAIN FileFields}

InitPersist ==
    /\ writable \in BOOLEAN
    /\ vector_store_id \in {None, 1}
    /\ num_uploaded_files \in {0, MaxDocs}
    /\ file_hashes_in_store \in {{}, {"9f2c", "41ab"}}
    /\ existing_filenames_in_store \in {{}, {"A.pdf", "B.pdf"}}
    /\ chat_history \in {Transcript(n) : n \in 0 .. MaxTranscript}
    /\ disk \in StateFiles
    /\ disk # NoFile =>
          /\ vector_store_id = None
          /\ num_uploaded_files = 0
          /\ file_hashes_in_store = {}
          /\ existing_filenames_in_store = {}
          /\ chat_history = <<>>
    /\ processing = FALSE
    /\ remote = {}
    /\ nextId = 1
    /\ uploaded_files = <<>>
    /\ query = NoQuery
    /\ pc = "done"
    /\ vs_local = None
    /\ classified = <<>>
    /\ batch = <<>>
    /\ calls = <<>>
    /\ stream = NoStream
    /\ last_op = "Start"

\* a call of persist_state()
Save ==
    /\ disk' = persist_state(vector_store_id, num_uploaded_files,
                             file_hashes_in_store, existing_filenames_in_store,
                             chat_history, disk)
    /\ last_op' = "Save"
    /\ UNCHANGED <<sessionVars, writable, remote, nextId, uploaded_files, query,
                   pc, vs_local, classified, batch, calls, stream>>

NextPersist ==
    \/ Save
    \/ NewSession

SpecPersist == InitPersist /\ [][NextPersist]_vars


-----------------------------------------------------------------------------
(* Properties *)

\* the file holds what persist_state writes for these values, if it can be written
Persisted(file, vsid, num, hashes, names, chat) ==
    writable => file = [kind |-> "json",
                        data |-> ToSave(vsid, num, hashes, names, chat)]

EndsWithUser(h) == h # <<>> /\ h[Len(h)][1] = "You"

\* h2 is h1 with exactly one entry of the speaker appended
GainsEntry(h1, h2, speaker) ==
    /\ Len(h2) = Len(h1) + 1
    /\ SubSeq(h2, 1, Len(h1)) = h1
    /\ h2[Len(h2)][1] = speaker

\* the transcript as an exchange leaves it: paired when idle; while a question
\* awaits its answer, paired up to that question (or cleared meanwhile)
TranscriptInStep ==
    IF processing
    THEN \/ chat_history = <<>>
         \/ /\ EndsWithUser(chat_history)
            /\ Paired(SubSeq(chat_history, 1, Len(chat_history) - 1))
    ELSE Paired(chat_history)

\* C1 -- Transcript pairing: within a session that started from an empty (or
\* paired) transcript, every step keeps the transcript in step with the
\* processing flag, so whenever the engine is idle (flag false) the transcript
\* has even length and alternates You, AI, You, AI, ...  Only the start of a
\* new session, which loads the transcript from the file, is not such a step.
C1_TranscriptPairing ==
    [][(TranscriptInStep /\ last_op' # "NewSession") => TranscriptInStep']_vars

\* two answered questions, the engine idle again
C1_Witness ==
    /\ pc = "done"
    /\ ~processing
    /\ Len(chat_history) = 4
    /\ Paired(chat_history)
    /\ chat_history[2][2] # APOLOGY
    /\ chat_history[4][2] # APOLOGY

\* C2 -- Answer failure still pairs: the step that takes a question appends
\* exactly one You entry; when the completion service raises (before or in the
\* middle of the stream) the answer step appends exactly one AI entry to the
\* transcript that ends with that question, its text is the fixed apology, and
\* the script goes on to its rerun instead of ending in the exception.
C2_AnswerFailurePairs ==
    [][/\ last_op' = "ChatPart1" =>
            /\ GainsEntry(chat_history, chat_history', "You")
            /\ chat_history'[Len(chat_history')][2] = query
       /\ (last_op' = "ChatPart2" /\ calls' = << <<"responses.stream", "error">> >>) =>
            /\ EndsWithUser(chat_history)
            /\ chat_history' = Append(chat_history, <<"AI", APOLOGY>>)
            /\ pc' # "crashed"
            /\ ~processing']_vars

\* a question answered by the apology
C2_Witness ==
    /\ last_op = "ChatPart2"
    /\ calls = << <<"responses.stream", "error">> >>
    /\ Len(chat_history) = 2
    /\ chat_history[1][1] = "You"
    /\ chat_history[2] = <<"AI", APOLOGY>>

\* C3 -- Question durability: right after a question is taken (Part 1) the
\* state file, when writable, holds the transcript with that question.
C3_QuestionDurable ==
    (last_op = "ChatPart1" /\ writable) =>
        /\ disk.kind = "json"
        /\ disk.data.chat_history = LastN(chat_history, KEEP)

\* C4 (as claimed) -- every step that leaves AwaitingAnswer through the answer
\* step appends exactly one AI entry and persists.
C4_AlwaysOneAnswer ==
    [][last_op' = "ChatPart2" =>
          /\ GainsEntry(chat_history, chat_history', "AI")
          /\ Persisted(disk', vector_store_id', num_uploaded_files',
                       file_hashes_in_store', existing_filenames_in_store',
                       chat_history')
          /\ ~processing']_vars

\* C4 (amended) -- the answer step appends exactly one AI entry and persists
\* when the transcript ends with a You entry; otherwise (the transcript was
\* cleared since the question was taken) it appends nothing and writes
\* nothing; either way the flag is false afterwards and the script reruns.
C4_AnswerIfQuestionLast ==
    [][last_op' = "ChatPart2" =>
          /\ processing /\ ~processing'
          /\ pc' \in {"ensure", "chat"}
          /\ IF chat_history # <<>> /\ chat_history[Len(chat_history)][1] = "You"
             THEN /\ GainsEntry(chat_history, chat_history', "AI")
                  /\ Persisted(disk', vector_store_id', num_uploaded_files',
                               file_hashes_in_store', existing_filenames_in_store',
                               chat_history')
             ELSE /\ chat_history' = chat_history
                  /\ disk' = disk]_vars

\* the answer step has run on a cleared transcript
C4_Witness ==
    /\ last_op = "ChatPart2"
    /\ calls = <<>>
    /\ chat_history = <<>>
    /\ ~processing

\* C5 -- Single in-flight exchange: while the processing flag is true no step
\* of the session takes a question: no You entry is appended and Part 1 does
\* not run, even when an input arrives.
C5_SingleInFlight ==
    [][(processing /\ last_op' # "NewSession") =>
          /\ last_op' # "ChatPart1"
          /\ ~GainsEntry(chat_history, chat_history', "You")]_vars

\* an input has arrived while a question awaits its answer
C5_Witness ==
    /\ processing
    /\ query # NoQuery
    /\ pc = "chat"
    /\ EndsWithUser(chat_history)


-----------------------------------------------------------------------------
(* Properties of the upload loop; in an upload step uploaded_files is the   *)
(* batch and the unprimed sets are the bookkeeping before the loop          *)

HashOf(i) == sha256(uploaded_files[i].bytes)

NameOf(i) == uploaded_files[i].name

\* the content of file i is known: from before the loop, or staged earlier in it
SeenHash(i) ==
    \/ HashOf(i) \in file_hashes_in_store
    \/ \E j \in 1 .. i - 1 : classified'[j] = "staged" /\ HashOf(j) = HashOf(i)

\* the name of file i is known: from before the loop, or staged earlier in it
SeenName(i) ==
    \/ NameOf(i) \in existing_filenames_in_store
    \/ \E j \in 1 .. i - 1 : classified'[j] = "staged" /\ NameOf(j) = NameOf(i)

StagedPositions == {i \in DOMAIN classified' : classified'[i] = "staged"}

\* C6 -- Dedup by content: in every upload step a file whose content hash is
\* already known (from an earlier call or from a file staged earlier in the
\* same batch) is skipped as a duplicate and its bytes are not staged again,
\* whatever its name; the hash of every staged file is recorded, and no step
\* but a rebinding or a new session takes a hash away.  The same bytes twice
\* in one batch, under names not seen before, give one staged and one skipped.
C6_DedupByContent ==
    [][/\ last_op' = "Upload" =>
            /\ DOMAIN classified' = DOMAIN uploaded_files
            /\ \A i \in DOMAIN uploaded_files :
                  /\ SeenHash(i) => classified'[i] = "Skipped duplicate"
                  /\ classified'[i] = "staged" => HashOf(i) \in file_hashes_in_store'
            /\ Len(batch') = Cardinality(StagedPositions)
            /\ \A k \in DOMAIN batch' :
                  /\ sha256(batch'[k]) \notin file_hashes_in_store
                  /\ \A m \in DOMAIN batch' :
                        sha256(batch'[m]) = sha256(batch'[k]) => m = k
            /\ (/\ Len(uploaded_files) = 2
                /\ HashOf(1) = HashOf(2)
                /\ NameOf(1) # NameOf(2)
                /\ HashOf(1) \notin file_hashes_in_store
                /\ NameOf(1) \notin existing_filenames_in_store)
               => classified' = <<"staged", "Skipped duplicate">>
       /\ last_op' \notin {"Ensure", "NewSession"} =>
            file_hashes_in_store \subseteq file_hashes_in_store']_vars

\* a file under a name not in the library is skipped for its content, which
\* an earlier call staged
C6_Witness ==
    /\ last_op = "Upload"
    /\ vector_store_id # None
    /\ Len(uploaded_files) = 1
    /\ classified = <<"Skipped duplicate">>
    /\ uploaded_files[1].name \notin existing_filenames_in_store
    /\ batch = <<>>

\* C7 -- Dedup by name: in every upload step a file whose name is already
\* known (from prefetch, an earlier call, or a file staged earlier in the same
\* batch) is not staged, even when its bytes are new (it is then reported as
\* already in the library); the name of every staged file is recorded, and no
\* step but a rebinding or a new session takes a name away.  Two different
\* contents under one new name in one batch give one staged and one skipped.
C7_DedupByName ==
    [][/\ last_op' = "Upload" =>
            /\ DOMAIN classified' = DOMAIN uploaded_files
            /\ \A i \in DOMAIN uploaded_files :
                  /\ SeenName(i) => classified'[i] # "staged"
                  /\ (SeenName(i) /\ ~SeenHash(i)) =>
                        classified'[i] = "Already in library"
                  /\ classified'[i] = "staged" =>
                        NameOf(i) \in existing_filenames_in_store'
            /\ Len(batch') = Cardinality(StagedPositions)
            /\ (/\ Len(uploaded_files) = 2
                /\ NameOf(1) = NameOf(2)
                /\ HashOf(1) # HashOf(2)
                /\ HashOf(1) \notin file_hashes_in_store
                /\ NameOf(1) \notin existing_filenames_in_store)
               => /\ classified'[1] = "staged"
                  /\ classified'[2] # "staged"
                  /\ HashOf(2) \notin file_hashes_in_store =>
                        classified'[2] = "Already in library"
       /\ last_op' \notin {"Ensure", "NewSession"} =>
            existing_filenames_in_store \subseteq existing_filenames_in_store']_vars

\* a file with new bytes is skipped for its name
C7_Witness ==
    /\ last_op = "Upload"
    /\ vector_store_id # None
    /\ Len(uploaded_files) = 1
    /\ classified = <<"Already in library">>
    /\ sha256(uploaded_files[1].bytes) \notin file_hashes_in_store
    /\ batch = <<>>

-----------------------------------------------------------------------------
(* Properties of ensure_vector_store_id *)

Created(cs) == cs # <<>> /\ cs[Len(cs)] = <<"vector_stores.create", "ok">>

\* C8 -- Rebind idempotence: a call that finds the cached id valid returns
\* that id, makes no listing and no creation call, and changes nothing of the
\* session state, the state file or the stores.  Every call that returns,
\* returns the id it leaves cached, and no step between two calls of a session
\* changes the cached id: so the second of two calls in a row returns what the
\* first returned.
C8_RebindIdempotent ==
    [][/\ (/\ last_op' = "Ensure"
           /\ calls' # <<>>
           /\ calls'[1] = <<"vector_stores.retrieve", "ok">>) =>
            /\ calls' = << <<"vector_stores.retrieve", "ok">> >>
            /\ vs_local' = vector_store_id
            /\ pc' = "prefetch"
            /\ UNCHANGED <<sessionVars, disk, remote, nextId>>
       /\ (last_op' = "Ensure" /\ pc' = "prefetch") =>
            /\ vs_local' # None
            /\ vs_local' = vector_store_id'
       /\ last_op' \notin {"Ensure", "NewSession"} =>
            vector_store_id' = vector_store_id]_vars

\* a call has confirmed the id an earlier call of the session bound
C8_Witness ==
    /\ last_op = "Ensure"
    /\ calls = << <<"vector_stores.retrieve", "ok">> >>
    /\ vs_local = vector_store_id
    /\ vs_local # None
    /\ num_uploaded_files > 0

\* C9 -- Stale-id repair: when the check of the cached id fails, the call
\* empties both sets and drops the id, and the file (when writable) shows the
\* state it leaves; then it returns the id of a store of the fixed name that
\* the listing showed, or the id of a store it creates, which is not the stale
\* id and not the id of any store that existed; or the creation raises and
\* the id stays None.
C9_StaleIdRepair ==
    [][(/\ last_op' = "Ensure"
        /\ vector_store_id # None
        /\ calls' # <<>>
        /\ calls'[1] = <<"vector_stores.retrieve", "error">>) =>
          /\ file_hashes_in_store' = {}
          /\ existing_filenames_in_store' = {}
          /\ Persisted(disk', vector_store_id', num_uploaded_files, {}, {},
                       chat_history)
          /\ Len(calls') \in {2, 3}
          /\ calls'[2][1] = "vector_stores.list"
          /\ IF pc' = "crashed"
             THEN /\ vector_store_id' = None
                  /\ calls'[Len(calls')] = <<"vector_stores.create", "error">>
             ELSE /\ pc' = "prefetch"
                  /\ vs_local' = vector_store_id'
                  /\ IF Created(calls')
                     THEN /\ vector_store_id' # vector_store_id
                          /\ vector_store_id' \notin StoreIds(remote)
                          /\ [id |-> vector_store_id', name |-> VECTOR_STORE_NAME]
                                \in remote'
                     ELSE /\ calls'[Len(calls')] = <<"vector_stores.list", "ok">>
                          /\ remote' = remote
                          /\ [id |-> vector_store_id', name |-> VECTOR_STORE_NAME]
                                \in remote]_vars

\* a second store was created after the id of the first proved stale
C9_Witness ==
    /\ last_op = "Ensure"
    /\ Len(calls) = 3
    /\ calls[1] = <<"vector_stores.retrieve", "error">>
    /\ Created(calls)
    /\ vector_store_id = 2
    /\ file_hashes_in_store = {}
    /\ existing_filenames_in_store = {}

\* C10 -- documentCount is reset to 0 exactly when a store is created: the
\* call that creates a store leaves num_uploaded_files 0, every other call
\* leaves it as it was.
C10_CountResetOnCreate ==
    [][last_op' = "Ensure" =>
          IF Created(calls')
          THEN num_uploaded_files' = 0
          ELSE num_uploaded_files' = num_uploaded_files]_vars

-----------------------------------------------------------------------------
(* Properties of the bookkeeping sets *)

\* C11 -- The two sets are reset together: every step of a session that
\* empties one of file_hashes_in_store and existing_filenames_in_store leaves
\* the other empty too, and every step that drops the cached id or binds a
\* different store leaves both sets empty.  (The start of a new session loads
\* the sets from the file and is not a reset.)
C11_ResetTogether ==
    [][last_op' # "NewSession" =>
          /\ (file_hashes_in_store # {} /\ file_hashes_in_store' = {}) =>
                existing_filenames_in_store' = {}
          /\ (existing_filenames_in_store # {} /\ existing_filenames_in_store' = {}) =>
                file_hashes_in_store' = {}
          /\ vector_store_id' # vector_store_id =>
                /\ file_hashes_in_store' = {}
                /\ existing_filenames_in_store' = {}]_vars

\* the cached id of a library with a document proved stale, and the call
\* bound the store of the name that the listing showed
C11_Witness ==
    /\ last_op = "Ensure"
    /\ calls = << <<"vector_stores.retrieve", "error">>,
                  <<"vector_stores.list", "ok">> >>
    /\ vector_store_id # None
    /\ num_uploaded_files > 0
    /\ file_hashes_in_store = {}
    /\ existing_filenames_in_store = {}

\* every file of the batch is known by content or by name
AllKnown(hashes, names) ==
    \A i \in DOMAIN uploaded_files :
        sha256(uploaded_files[i].bytes) \in hashes \/ uploaded_files[i].name \in names

UploadCall(outcome) == << <<"file_batches.upload_and_poll", outcome>> >>

\* C12 -- Failed batch upload: when upload_and_poll raises, the run ends in
\* the exception, num_uploaded_files and the state file stay as they were, and
\* the hashes and names staged for the batch stay in the two sets next to what
\* was there.  After any upload step every file of the batch is known, and an
\* upload step on a batch of known files stages nothing and makes no upload
\* call: a retry of the same files skips them all.  When upload_and_poll
\* returns, num_uploaded_files has grown by the number of staged files and the
\* file (when writable) holds the state the step leaves.
C12_FailedUploadNoRollback ==
    [][last_op' = "Upload" =>
          /\ IF StagedPositions = {}
             THEN calls' = <<>>
             ELSE calls' \in {UploadCall("ok"), UploadCall("error")}
          /\ calls' = UploadCall("error") =>
                /\ pc' = "crashed"
                /\ num_uploaded_files' = num_uploaded_files
                /\ disk' = disk
                /\ file_hashes_in_store \subseteq file_hashes_in_store'
                /\ existing_filenames_in_store \subseteq existing_filenames_in_store'
                /\ \A i \in StagedPositions :
                      /\ HashOf(i) \in file_hashes_in_store'
                      /\ NameOf(i) \in existing_filenames_in_store'
          /\ calls' = UploadCall("ok") =>
                /\ pc' = "chat"
                /\ num_uploaded_files' =
                       num_uploaded_files + Cardinality(StagedPositions)
                /\ Persisted(disk', vector_store_id', num_uploaded_files',
                             file_hashes_in_store', existing_filenames_in_store',
                             chat_history')
          /\ AllKnown(file_hashes_in_store', existing_filenames_in_store')
          /\ AllKnown(file_hashes_in_store, existing_filenames_in_store) =>
                /\ StagedPositions = {}
                /\ batch' = <<>>
                /\ calls' = <<>>
                /\ num_uploaded_files' = num_uploaded_files
                /\ disk' = disk]_vars

\* the retry after a failed upload: both files of the batch are skipped, and
\* no document was ever added
C12_Witness ==
    /\ last_op = "Upload"
    /\ vector_store_id # None
    /\ Len(uploaded_files) = 2
    /\ \A i \in DOMAIN classified : classified[i] # "staged"
    /\ classified[2] = "Skipped duplicate"
    /\ calls = <<>>
    /\ num_uploaded_files = 0
    /\ Cardinality(file_hashes_in_store) = 2

-----------------------------------------------------------------------------
(* Properties of the persistence helpers *)

\* the k most recent entries of h, oldest first (all of h when it has fewer)
MostRecent(h, k) ==
    LET n == IF Len(h) < k THEN Len(h) ELSE k
    IN  [i \in 1 .. n |-> h[Len(h) - n + i]]

\* C13 -- Persistence round trip: a session that starts from the file a
\* successful persist_state() has just written has the saved vector_store_id,
\* num_uploaded_files, file_hashes_in_store and existing_filenames_in_store,
\* and its transcript is the 50 most recent entries of the saved one in the
\* same order (all of it when it has at most 50); persist_state() itself
\* changes nothing of the session state, so the transcript in memory keeps
\* its length.
C13_RoundTrip ==
    [][/\ (last_op = "Save" /\ writable /\ last_op' = "NewSession") =>
            /\ vector_store_id' = vector_store_id
            /\ num_uploaded_files' = num_uploaded_files
            /\ file_hashes_in_store' = file_hashes_in_store
            /\ existing_filenames_in_store' = existing_filenames_in_store
            /\ chat_history' = MostRecent(chat_history, 50)
            /\ Len(chat_history) <= 50 => chat_history' = chat_history
       /\ last_op' = "Save" =>
            /\ chat_history' = chat_history
            /\ UNCHANGED sessionVars]_vars

\* a session loaded from the file of a session with a bound store, both sets
\* filled and a transcript longer than 50
C13_Witness ==
    /\ last_op = "NewSession"
    /\ writable
    /\ vector_store_id = 1
    /\ num_uploaded_files = MaxDocs
    /\ Cardinality(file_hashes_in_store) = 2
    /\ Cardinality(existing_filenames_in_store) = 2
    /\ Len(chat_history) = 50
    /\ chat_history[1][2] = <<MaxTranscript - 49>>
    /\ chat_history[50][2] = <<MaxTranscript>>

FieldOr(file, k, default) ==
    IF file.kind = "json" /\ k \in DOMAIN file.data THEN file.data[k] ELSE default

\* C14 -- Corrupt file tolerance: the start of a session never ends in an
\* exception of load_persisted_state; from a missing, unreadable or malformed
\* file the session gets the defaults (no id, count 0, both sets empty, empty
\* transcript), and from a well-formed file every field the file holds, with
\* the default for every field it lacks.
C14_LoadTolerant ==
    [][last_op' = "NewSession" =>
          /\ pc' # "crashed"
          /\ disk' = disk
          /\ disk.kind # "json" =>
                /\ vector_store_id' = None
                /\ num_uploaded_files' = 0
                /\ file_hashes_in_store' = {}
                /\ existing_filenames_in_store' = {}
                /\ chat_history' = <<>>
          /\ vector_store_id' = FieldOr(disk, "vector_store_id", None)
          /\ num_uploaded_files' = FieldOr(disk, "num_uploaded_files", 0)
          /\ file_hashes_in_store' =
                 ListToSet(FieldOr(disk, "file_hashes_in_store", <<>>))
          /\ existing_filenames_in_store' =
                 ListToSet(FieldOr(disk, "existing_filenames_in_store", <<>>))
          /\ chat_history' = FieldOr(disk, "chat_history", <<>>)]_vars

\* a session loaded from a well-formed file that holds the id and the hashes
\* but neither the count nor the transcript
C14_Witness ==
    /\ last_op = "NewSession"
    /\ disk.kind = "json"
    /\ DOMAIN disk.data = {"vector_store_id", "file_hashes_in_store"}
    /\ vector_store_id = 1
    /\ file_hashes_in_store = {"9f2c", "41ab"}
    /\ num_uploaded_files = 0
    /\ chat_history = <<>>

-----------------------------------------------------------------------------
(* Progress of an exchange *)

UserEvents == {"ClickClear", "SubmitQuery", "ChangeUpload", "NewSession"}

\* C15 -- Termination of an exchange: once Part 1 has taken a question, and
\* with the script running on as Streamlit runs it, the processing flag is
\* eventually false again (the exchange is answered, by a real answer or the
\* apology, and the input is enabled), unless the user acts again before that.
C15_ExchangeTerminates ==
    (last_op = "ChatPart1") ~> (~processing \/ last_op \in UserEvents)

-----------------------------------------------------------------------------
(* Rediscovery by name *)

\* the call ended by binding a store that the listing showed
FoundByName(cs) == cs # <<>> /\ cs[Len(cs)] = <<"vector_stores.list", "ok">>

\* C16 -- Rediscovery by name keeps the bookkeeping: a call that binds a
\* store found by the fixed name creates nothing, caches and returns the id of
\* a store of that name, leaves the file (when writable) holding the state it
\* leaves, and changes neither num_uploaded_files nor the transcript; the two
\* sets are what they were when the listing was made: unchanged when the call
\* began without a cached id, empty when it began by dropping a stale id.
C16_FoundKeepsBookkeeping ==
    [][(last_op' = "Ensure" /\ FoundByName(calls')) =>
          /\ pc' = "prefetch"
          /\ remote' = remote
          /\ [id |-> vector_store_id', name |-> VECTOR_STORE_NAME] \in remote
          /\ vs_local' = vector_store_id'
          /\ num_uploaded_files' = num_uploaded_files
          /\ chat_history' = chat_history
          /\ processing' = processing
          /\ Persisted(disk', vector_store_id', num_uploaded_files',
                       file_hashes_in_store', existing_filenames_in_store',
                       chat_history')
          /\ IF Len(calls') = 1
             THEN /\ vector_store_id = None
                  /\ file_hashes_in_store' = file_hashes_in_store
                  /\ existing_filenames_in_store' = existing_filenames_in_store
             ELSE /\ calls'[1] = <<"vector_stores.retrieve", "error">>
                  /\ file_hashes_in_store' = {}
                  /\ existing_filenames_in_store' = {}]_vars

\* a session without an id, which counts a document, has bound the store of
\* the name
C16_Witness ==
    /\ last_op = "Ensure"
    /\ calls = << <<"vector_stores.list", "ok">> >>
    /\ vector_store_id # None
    /\ num_uploaded_files > 0

-----------------------------------------------------------------------------
(* The text of the answer *)

IsFragment(e) == e.type = "response.output_text.delta"

\* the text fragments among the events, in the order of arrival
Fragments(events) ==
    LET ds == SelectSeq(events, IsFragment)
    IN  [i \in DOMAIN ds |-> ds[i].delta]

\* C17 -- A streaming error discards the partial text: when the stream raises
\* after some fragments were accumulated, the AI entry the answer step appends
\* (and writes to the file) is exactly the fixed apology and holds none of the
\* fragments; when the stream ends without an error the entry is the
\* concatenation of all fragments in the order of arrival.
C17_ErrorDiscardsPartial ==
    [][(last_op' = "ChatPart2" /\ calls' # <<>>) =>
          LET events == stream'.events
              failAt == stream'.failAt
              entry == chat_history'[Len(chat_history')]
              partial == Fragments(SubSeq(events, 1, failAt - 1))
          IN  /\ Len(chat_history') = Len(chat_history) + 1
              /\ entry[1] = "AI"
              /\ writable => disk'.data.chat_history = chat_history'
              /\ IF failAt = 0
                 THEN /\ calls' = << <<"responses.stream", "ok">> >>
                      /\ entry[2] = Fragments(events)
                 ELSE /\ calls' = << <<"responses.stream", "error">> >>
                      /\ entry[2] = <<"Sorry, I couldn't answer that right now. Please try rephrasing or ask another question.">>
                      /\ \A i \in DOMAIN partial, j \in DOMAIN entry[2] :
                            entry[2][j] # partial[i]]_vars

\* the stream failed after the fragments x and y, and the entry is the apology
C17_Witness ==
    /\ last_op = "ChatPart2"
    /\ stream.failAt = 3
    /\ Fragments(stream.events) = <<"x", "y">>
    /\ chat_history # <<>>
    /\ chat_history[Len(chat_history)] = <<"AI", APOLOGY>>

\* two fragments that differ arrived, with another event between or around
\* them, and the entry is their concatenation
C17_WitnessAnswer ==
    /\ last_op = "ChatPart2"
    /\ stream.failAt = 0
    /\ chat_history # <<>>
    /\ chat_history[Len(chat_history)] = <<"AI", <<"y", "x">> >>

-----------------------------------------------------------------------------
(* Order of the transcript *)

\* C18 -- The transcript in memory is never reordered: every step of a
\* session leaves chat_history as it is, or appends exactly one entry at its
\* end with all earlier entries in place (only the two parts of the chat logic
\* do), or empties it (only the clear button does).  The start of a new
\* session builds a new transcript from the file and is no such step.
C18_NeverReordered ==
    [][last_op' # "NewSession" =>
          \/ chat_history' = chat_history
          \/ /\ last_op' \in {"ChatPart1", "ChatPart2"}
             /\ Len(chat_history') = Len(chat_history) + 1
             /\ \A i \in DOMAIN chat_history : chat_history'[i] = chat_history[i]
          \/ /\ last_op' = "ClickClear"
             /\ chat_history' = <<>>]_vars

\* a second question was appended behind an answered one
C18_Witness ==
    /\ last_op = "ChatPart1"
    /\ processing
    /\ Len(chat_history) = 3
    /\ chat_history[1][1] = "You"
    /\ chat_history[2][1] = "AI"
    /\ chat_history[3][1] = "You"
    /\ chat_history[2][2] # chat_history[3][2]

-----------------------------------------------------------------------------
(* Bookkeeping and binding *)

\* C19 -- In every state of a process started from the default state, a
\* session without a cached id has both sets empty; and a step of a session
\* adds an entry to either set only while a store is bound: it is a step of
\* prefetch or of the upload loop, run with the id that ensure_vector_store_id
\* returned, which is the cached id before and after.
C19_BookkeepingNeedsIndex ==
    /\ [](vector_store_id = None =>
             /\ file_hashes_in_store = {}
             /\ existing_filenames_in_store = {})
    /\ [][(/\ last_op' # "NewSession"
           /\ \/ ~(file_hashes_in_store' \subseteq file_hashes_in_store)
              \/ ~(existing_filenames_in_store' \subseteq existing_filenames_in_store)) =>
             /\ last_op' \in {"Prefetch", "Upload"}
             /\ vector_store_id # None
             /\ vector_store_id' = vector_store_id
             /\ vs_local = vector_store_id]_vars

\* a library that counts a document has lost its id: the repair of the stale
\* id ended in the exception of the creation
C19_Witness ==
    /\ last_op = "Ensure"
    /\ pc = "crashed"
    /\ vector_store_id = None
    /\ num_uploaded_files > 0
    /\ file_hashes_in_store = {}
    /\ existing_filenames_in_store = {}
    /\ calls[1] = <<"vector_stores.retrieve", "error">>

-----------------------------------------------------------------------------
(* The transcript in the state file *)

\* C20 (as claimed) -- every transcript in the state file has even length and
\* alternates You, AI from a You entry on.
C20_WrittenTranscriptPaired ==
    disk.kind = "json" => Paired(disk.data.chat_history)

\* C20 (amended) -- every step that writes the state file writes the 50 most
\* recent entries of the transcript in memory.  What it writes is paired
\* whenever the transcript in memory is (as it is when a session that began
\* with a paired transcript is idle), also when entries were cut off.  A step
\* that writes while the transcript ends with a You entry (ensure, prefetch or
\* upload on the rerun between question and answer) writes a transcript that
\* ends with that You entry and is not paired.
C20_WrittenTranscript ==
    [][disk' # disk =>
          /\ disk'.kind = "json"
          /\ disk'.data.chat_history = MostRecent(chat_history', 50)
          /\ Paired(chat_history') => Paired(disk'.data.chat_history)
          /\ EndsWithUser(chat_history') =>
                /\ EndsWithUser(disk'.data.chat_history)
                /\ ~Paired(disk'.data.chat_history)
                /\ last_op' \in {"Ensure", "Prefetch", "Upload"}]_vars

\* the file holds 50 entries cut from a transcript of 51: it begins with an
\* answer and ends with the question that awaits its answer
C20_Witness ==
    /\ disk.kind = "json"
    /\ Len(disk.data.chat_history) = 50
    /\ disk.data.chat_history[1][1] = "AI"
    /\ disk.data.chat_history[50][1] = "You"
    /\ processing
    /\ Len(chat_history) = 51

====
